---- MODULE Spec2Model ----
(***************************************************************************)
(* Model of .circleci/scripts/should_run_job.py: the CI job filter that    *)
(* reads the latest commit message, scans it for [foo ci] / [ci foo] /     *)
(* [foo test] / [test foo] markers and decides whether the job named by    *)
(* build_environment runs.                                                 *)
(*                                                                         *)
(* Text is a sequence of one-character strings, so that the regular        *)
(* expression and the substring tests are computed character by character. *)
(***************************************************************************)
EXTENDS Integers, Sequences, FiniteSets, TLC

\* ------------------------------------------------------------------------
\* Bounds of the model
\* ------------------------------------------------------------------------

\* the commit message is the concatenation of at most MaxFrags fragments
MaxFrags == 3

\* ------------------------------------------------------------------------
\* Inputs
\* ------------------------------------------------------------------------

\* pieces of commit-message text
Fragments ==
  { <<"[", "a", "l", "l", " ", "c", "i", "]">>,      \* [all ci]
    <<"[", "c", "i", " ", "a", "]">>,                \* [ci a]
    <<"[", "b", " ", "t", "e", "s", "t", "]">>,      \* [b test]
    <<"[", "a", " ", "c", "i", " ", "b", "]">>,      \* [a ci b]
    <<"[", "c", "i", "]">>,                          \* [ci]
    <<"[", "a">>,                                    \* [a
    <<" ", "c", "i", "]">>,                          \*  ci]
    <<"f", "i", "x">> }                              \* fix

\* values of the positional argument build_environment
BuildEnvironments == { <<"x", "a">>, <<"b">>, <<"q">> }

\* values of the configuration list default_set
DefaultSets == { <<>>, << <<"a">> >>, << <<"b">>, <<"x">> >>, << <<"q">> >> }

RECURSIVE Concat(_)
Concat(ss) == IF ss = <<>> THEN <<>> ELSE Head(ss) \o Concat(Tail(ss))

RECURSIVE SeqsUpTo(_)
SeqsUpTo(n) ==
  IF n = 0 THEN { <<>> }
  ELSE LET S == SeqsUpTo(n - 1)
       IN  S \cup { Append(s, f) : s \in { t \in S : Len(t) = n - 1 }, f \in Fragments }

\* ------------------------------------------------------------------------
\* Python values and operators used by the script
\* ------------------------------------------------------------------------

\* Python's None (an unmatched capture group); no text equals it
None == <<"None">>

\* truth value of a str-or-None
Truthy(v) == v # None /\ v # <<>>

\* a or b
PyOr(a, b) == IF Truthy(a) THEN a ELSE b

\* s in t, for two str
IsSubstr(s, t) ==
  \E i \in 1..(Len(t) - Len(s) + 1) : SubSeq(t, i, i + Len(s) - 1) = s

\* ------------------------------------------------------------------------
\* RE_MARKER = \[(?:([^ \[\]]+) )?(?:ci|test)(?: ([^ \[\]]+))?\]
\* ------------------------------------------------------------------------

CI == <<"c", "i">>
TEST == <<"t", "e", "s", "t">>

\* the character class [^ \[\]]
IsGroupChar(c) == c \notin {" ", "[", "]"}

\* the position after the longest run of [^ \[\]] characters starting at i
RunEnd(t, i) ==
  CHOOSE j \in i..(Len(t) + 1) :
    /\ \A k \in i..(j - 1) : IsGroupChar(t[k])
    /\ (j = Len(t) + 1 \/ ~IsGroupChar(t[j]))

\* the literal w stands at position i of t
HasAt(t, i, w) ==
  /\ i >= 1
  /\ i + Len(w) - 1 <= Len(t)
  /\ SubSeq(t, i, i + Len(w) - 1) = w

NoMatch == [ok |-> FALSE, start |-> 0, end |-> 0, g0 |-> None, g1 |-> None, g2 |-> None]

\* (?: ([^ \[\]]+))?\]  at position q: the greedy optional group first, then
\* the bare closing bracket
MatchClose(t, s, q, g1) ==
  LET e == RunEnd(t, q + 1)
  IN  IF HasAt(t, q, <<" ">>) /\ e > q + 1 /\ HasAt(t, e, <<"]">>)
      THEN [ok |-> TRUE, start |-> s, end |-> e + 1, g0 |-> SubSeq(t, s, e),
            g1 |-> g1, g2 |-> SubSeq(t, q + 1, e - 1)]
      ELSE IF HasAt(t, q, <<"]">>)
      THEN [ok |-> TRUE, start |-> s, end |-> q + 1, g0 |-> SubSeq(t, s, q),
            g1 |-> g1, g2 |-> None]
      ELSE NoMatch

\* (?:ci|test) at position p, alternatives in order, then the rest
MatchToken(t, s, p, g1) ==
  LET viaCi == IF HasAt(t, p, CI) THEN MatchClose(t, s, p + Len(CI), g1) ELSE NoMatch
      viaTest == IF HasAt(t, p, TEST) THEN MatchClose(t, s, p + Len(TEST), g1) ELSE NoMatch
  IN  IF viaCi.ok THEN viaCi ELSE viaTest

\* the whole pattern anchored at position s: the optional prefix group is
\* greedy, so the match with a prefix is tried before the match without
MatchAt(t, s) ==
  IF ~HasAt(t, s, <<"[">>) THEN NoMatch
  ELSE LET e == RunEnd(t, s + 1)
           withPrefix ==
             IF e > s + 1 /\ HasAt(t, e, <<" ">>)
             THEN MatchToken(t, s, e + 1, SubSeq(t, s + 1, e - 1))
             ELSE NoMatch
       IN  IF withPrefix.ok THEN withPrefix ELSE MatchToken(t, s, s + 1, None)

\* the next match of the scanner at or after position pos (leftmost first)
NextMatch(t, pos) ==
  LET starts == { s \in pos..Len(t) : MatchAt(t, s).ok }
  IN  IF starts = {} THEN NoMatch
      ELSE MatchAt(t, CHOOSE s \in starts : \A u \in starts : s <= u)

\* ------------------------------------------------------------------------
\* State
\* ------------------------------------------------------------------------

VARIABLES
  pc,                 \* position in the script
  head_msg,           \* fragments of the message of HEAD in the checkout
  build_environment,  \* args.build_environment
  default_set,        \* the list default_set
  commit_msg,         \* commit_msg, None before it is read
  pos,                \* position of the markers iterator in commit_msg
  di,                 \* index of the default_set loop
  output,             \* lines printed on standard output
  error,              \* the uncaught exception, "none" if there is none
  exit_code           \* exit status of the process, -1 while it runs

vars == <<pc, head_msg, build_environment, default_set, commit_msg, pos, di,
          output, error, exit_code>>

\* printed lines
UnrecognizedLine(m) == [kind |-> "Unrecognized marker", env |-> None, marker |-> m.g0]
AcceptMarkerLine(env, m) == [kind |-> "Accepting due to commit marker", env |-> env, marker |-> m.g0]
AcceptDefaultLine(env) == [kind |-> "Accepting as part of default set", env |-> env, marker |-> None]
RejectLine(env) == [kind |-> "Rejecting", env |-> env, marker |-> None]

Init ==
  /\ pc = "git_log"
  /\ head_msg \in SeqsUpTo(MaxFrags)
  /\ build_environment \in BuildEnvironments
  /\ default_set \in DefaultSets
  /\ commit_msg = None
  /\ pos = 1
  /\ di = 1
  /\ output = <<>>
  /\ error = "none"
  /\ exit_code = -1

\* ------------------------------------------------------------------------
\* Steps of the script
\* ------------------------------------------------------------------------

\* line 65, git succeeds: commit_msg is the message of HEAD; line 71 creates
\* the iterator at the start of the text
GitLogOk ==
  /\ pc = "git_log"
  /\ commit_msg' = Concat(head_msg)
  /\ pos' = 1
  /\ pc' = "markers"
  /\ UNCHANGED <<head_msg, build_environment, default_set, di, output, error, exit_code>>

\* line 65, git exits non-zero: check_output raises CalledProcessError, which
\* nothing catches; the interpreter exits with status 1
GitLogFail ==
  /\ pc = "git_log"
  /\ error' = "CalledProcessError"
  /\ exit_code' = 1
  /\ pc' = "exited"
  /\ UNCHANGED <<head_msg, build_environment, default_set, commit_msg, pos, di, output>>

\* the test of line 78 raises TypeError when spec is None
SpecTestRaises(spec) == spec = None

\* line 78 with the substring test written as an equality
SpecAcceptsByEquality(spec, env) == spec = env \/ spec = <<"a", "l", "l">>

\* line 78: spec in args.build_environment or spec == 'all'
SpecAccepts(spec, env) == IsSubstr(spec, env) \/ spec = <<"a", "l", "l">>

\* line 74: m.group(1) and m.group(2)
IsUnrecognized(m) == Truthy(m.g1) /\ Truthy(m.g2)

\* lines 73-80 with the continue of line 76 left out: a two-sided marker is
\* reported and then tested like any other
MarkerIterWithoutContinue(env, t, p, out) ==
  LET m == NextMatch(t, p)
      spec == PyOr(m.g1, m.g2)
      out1 == IF IsUnrecognized(m) THEN Append(out, UnrecognizedLine(m)) ELSE out
  IN  IF ~m.ok
      THEN [pc |-> "defaults", pos |-> p, output |-> out, error |-> "none", exit_code |-> -1]
      ELSE IF SpecTestRaises(spec)
      THEN [pc |-> "exited", pos |-> m.end, output |-> out1, error |-> "TypeError",
            exit_code |-> 1]
      ELSE IF SpecAccepts(spec, env)
      THEN [pc |-> "exited", pos |-> m.end, output |-> Append(out1, AcceptMarkerLine(env, m)),
            error |-> "none", exit_code |-> 0]
      ELSE [pc |-> "markers", pos |-> m.end, output |-> out1, error |-> "none", exit_code |-> -1]

\* lines 73-80: one iteration of the markers loop (or its end) with the
\* iterator at position p of text t and the lines out printed so far
MarkerIter(env, t, p, out) ==
  LET m == NextMatch(t, p)
      spec == PyOr(m.g1, m.g2)
  IN  IF ~m.ok
      THEN [pc |-> "defaults", pos |-> p, output |-> out, error |-> "none", exit_code |-> -1]
      ELSE IF IsUnrecognized(m)
      THEN [pc |-> "markers", pos |-> m.end, output |-> Append(out, UnrecognizedLine(m)),
            error |-> "none", exit_code |-> -1]
      ELSE IF SpecTestRaises(spec)
      THEN [pc |-> "exited", pos |-> m.end, output |-> out, error |-> "TypeError",
            exit_code |-> 1]
      ELSE IF SpecAccepts(spec, env)
      THEN [pc |-> "exited", pos |-> m.end, output |-> Append(out, AcceptMarkerLine(env, m)),
            error |-> "none", exit_code |-> 0]
      ELSE [pc |-> "markers", pos |-> m.end, output |-> out, error |-> "none", exit_code |-> -1]

MarkerStep ==
  /\ pc = "markers"
  /\ LET r == MarkerIter(build_environment, commit_msg, pos, output)
     IN  /\ pc' = r.pc
         /\ pos' = r.pos
         /\ output' = r.output
         /\ error' = r.error
         /\ exit_code' = r.exit_code
  /\ UNCHANGED <<head_msg, build_environment, default_set, commit_msg, di>>

\* lines 82-85: one iteration of the default_set loop (or its end) at index i
DefaultIter(env, ds, i, out) ==
  IF i > Len(ds)
  THEN [pc |-> "reject", di |-> i, output |-> out, exit_code |-> -1]
  ELSE IF IsSubstr(ds[i], env)
  THEN [pc |-> "exited", di |-> i, output |-> Append(out, AcceptDefaultLine(env)),
        exit_code |-> 0]
  ELSE [pc |-> "defaults", di |-> i + 1, output |-> out, exit_code |-> -1]

DefaultStep ==
  /\ pc = "defaults"
  /\ LET r == DefaultIter(build_environment, default_set, di, output)
     IN  /\ pc' = r.pc
         /\ di' = r.di
         /\ output' = r.output
         /\ exit_code' = r.exit_code
  /\ UNCHANGED <<head_msg, build_environment, default_set, commit_msg, pos, error>>

\* lines 87-88
Reject ==
  /\ pc = "reject"
  /\ output' = Append(output, RejectLine(build_environment))
  /\ exit_code' = 1
  /\ pc' = "exited"
  /\ UNCHANGED <<head_msg, build_environment, default_set, commit_msg, pos, di, error>>

Next == GitLogOk \/ GitLogFail \/ MarkerStep \/ DefaultStep \/ Reject

Spec == Init /\ [][Next]_vars

\* ------------------------------------------------------------------------
\* The script as a function of its inputs
\* ------------------------------------------------------------------------

\* line 71: every match the iterator yields on text t from position p on
RECURSIVE MatchesFrom(_, _)
MatchesFrom(t, p) ==
  LET m == NextMatch(t, p)
  IN  IF ~m.ok THEN <<>> ELSE <<m>> \o MatchesFrom(t, m.end)

Markers(t) == MatchesFrom(t, 1)

\* lines 73-80 run to the end of the loop or to the exit
RECURSIVE MarkersLoop(_, _, _, _)
MarkersLoop(env, t, p, out) ==
  LET r == MarkerIter(env, t, p, out)
  IN  IF r.pc = "markers" THEN MarkersLoop(env, t, r.pos, r.output) ELSE r

\* lines 82-85 run to the end of the loop or to the exit
RECURSIVE DefaultsLoop(_, _, _, _)
DefaultsLoop(env, ds, i, out) ==
  LET r == DefaultIter(env, ds, i, out)
  IN  IF r.pc = "defaults" THEN DefaultsLoop(env, ds, r.di, r.output) ELSE r

\* lines 71-88: the outcome of the script for commit message t
Decide(env, t, ds) ==
  LET r == MarkersLoop(env, t, 1, <<>>)
      d == DefaultsLoop(env, ds, 1, r.output)
  IN  IF r.pc = "exited"
      THEN [exit_code |-> r.exit_code, error |-> r.error, output |-> r.output]
      ELSE IF d.pc = "exited"
      THEN [exit_code |-> d.exit_code, error |-> "none", output |-> d.output]
      ELSE [exit_code |-> 1, error |-> "none", output |-> Append(d.output, RejectLine(env))]

\* ------------------------------------------------------------------------
\* Vocabulary of the properties
\* ------------------------------------------------------------------------

\* the marker has a prefix and a suffix / exactly one of them / none
TwoSided(m) == m.g1 # None /\ m.g2 # None
OneSided(m) == (m.g1 # None) # (m.g2 # None)
Bare(m) == m.g1 = None /\ m.g2 = None
NotTwoSided(m) == ~TwoSided(m)

\* the payload of a one-sided marker
Payload(m) == IF m.g1 # None THEN m.g1 ELSE m.g2

\* a one-sided marker whose payload is 'all' or a substring of env
MarkerSelects(m, env) ==
  OneSided(m) /\ (Payload(m) = <<"a", "l", "l">> \/ IsSubstr(Payload(m), env))

\* S: env is explicitly specified by the markers of text t
InS(env, t) == \E i \in DOMAIN Markers(t) : MarkerSelects(Markers(t)[i], env)

\* D: env is a default build
InD(env, ds) == \E i \in DOMAIN ds : IsSubstr(ds[i], env)

\* the run got a commit message and has ended
Ran == pc = "exited" /\ commit_msg # None

LastKind(out) == IF out = <<>> THEN "nothing" ELSE out[Len(out)].kind

AcceptKinds == {"Accepting due to commit marker", "Accepting as part of default set"}

\* the Unrecognized lines of the two-sided markers of ms, in order
RECURSIVE UnrecognizedLines(_)
UnrecognizedLines(ms) ==
  IF ms = <<>> THEN <<>>
  ELSE (IF TwoSided(Head(ms)) THEN <<UnrecognizedLine(Head(ms))>> ELSE <<>>)
       \o UnrecognizedLines(Tail(ms))

\* index of the first marker of ms that selects env
FirstSelecting(ms, env) ==
  CHOOSE i \in DOMAIN ms :
    MarkerSelects(ms[i], env) /\ \A j \in 1..(i - 1) : ~MarkerSelects(ms[j], env)

\* ------------------------------------------------------------------------
\* Properties
\* ------------------------------------------------------------------------

\* C1: the job runs (exit code 0) exactly when build_environment is in
\* S \/ D; in every other case it is rejected.
C1_RunIffSOrD ==
  Ran => ((exit_code = 0) <=> (InS(build_environment, commit_msg)
                               \/ InD(build_environment, default_set)))

\* C2: markers never veto: when a default_set entry is a substring of
\* build_environment the run ends with exit code 0 whatever the commit
\* message contains, a bare [ci] included.
C2_MarkersNeverVeto ==
  (Ran /\ InD(build_environment, default_set)) => exit_code = 0

\* C3: a commit message with [all ci], or with a one-sided marker whose
\* payload is a substring of build_environment, is accepted whatever the
\* default set and whatever other markers stand before or after it.
C3_SelectingMarkerAccepts ==
  (Ran /\ InS(build_environment, commit_msg)) => exit_code = 0

\* C4: exit code and printed line agree: exit code 0 follows an acceptance
\* line, exit code 1 follows the line Rejecting <build_environment>.
C4_ExitCodeMatchesLastLine ==
  Ran => /\ exit_code \in {0, 1}
         /\ exit_code = 0 => LastKind(output) \in AcceptKinds
         /\ exit_code = 1 => /\ output # <<>>
                             /\ output[Len(output)] = RejectLine(build_environment)

\* C5: a failure of git log ends the process with a non-zero status, nothing
\* evaluated and nothing printed, and it is the only error outcome: a run
\* that got a commit message ends without an error.
C5_GitFailureOnlyError ==
  pc = "exited" =>
    /\ error = "CalledProcessError" =>
         (commit_msg = None /\ exit_code # 0 /\ output = <<>> /\ pos = 1 /\ di = 1)
    /\ commit_msg # None => error = "none"

\* C9: a marker that reaches the test of line 78 has exactly one of prefix
\* and suffix, so spec is a non-empty string there.
C9_SpecIsAString ==
  pc = "markers" =>
    LET m == NextMatch(commit_msg, pos)
    IN  (m.ok /\ ~IsUnrecognized(m)) =>
          (OneSided(m) /\ Truthy(PyOr(m.g1, m.g2)))

\* C7: when the run accepts by a commit marker, the marker of the acceptance
\* line is the first one-sided marker of the message that selects
\* build_environment, the lines before it are the Unrecognized lines of the
\* two-sided markers before that marker, in order, and the iterator stands
\* right behind that marker.
C7_FirstSelectingMarkerWins ==
  (pc = "exited" /\ LastKind(output) = "Accepting due to commit marker") =>
    LET ms == Markers(commit_msg)
    IN  /\ InS(build_environment, commit_msg)
        /\ LET k == FirstSelecting(ms, build_environment)
           IN  /\ output = UnrecognizedLines(SubSeq(ms, 1, k - 1))
                           \o <<AcceptMarkerLine(build_environment, ms[k])>>
               /\ pos = ms[k].end
        /\ exit_code = 0
        /\ di = 1

\* a run accepted by the second of three markers, behind a two-sided one
C7_Witness ==
  /\ pc = "exited"
  /\ LastKind(output) = "Accepting due to commit marker"
  /\ Len(output) = 2
  /\ Len(Markers(commit_msg)) = 3
  /\ MarkerSelects(Markers(commit_msg)[3], build_environment)

\* C8: the default set decides only when no marker accepts: the default-set
\* reason is printed only if no marker selects build_environment, the reason
\* is the commit marker when a marker and a default entry both match, and a
\* message without markers is accepted by a matching default entry.
C8_DefaultOnlyAfterMarkers ==
  Ran =>
    /\ LastKind(output) = "Accepting as part of default set"
         => ~InS(build_environment, commit_msg)
    /\ (InS(build_environment, commit_msg) /\ InD(build_environment, default_set))
         => LastKind(output) = "Accepting due to commit marker"
    /\ (Markers(commit_msg) = <<>> /\ InD(build_environment, default_set))
         => (exit_code = 0 /\ LastKind(output) = "Accepting as part of default set")

\* text t with every two-sided marker of ms (from position p on) replaced by
\* repl
RECURSIVE Splice(_, _, _, _)
Splice(t, ms, p, repl) ==
  IF ms = <<>> THEN SubSeq(t, p, Len(t))
  ELSE IF TwoSided(Head(ms))
  THEN SubSeq(t, p, Head(ms).start - 1) \o repl \o Splice(t, Tail(ms), Head(ms).end, repl)
  ELSE Splice(t, Tail(ms), p, repl)

\* the commit message with its two-sided markers removed
WithoutTwoSided(t) == Splice(t, Markers(t), 1, <<>>)

\* the texts of the markers ms
RECURSIVE MarkerTexts(_)
MarkerTexts(ms) ==
  IF ms = <<>> THEN <<>> ELSE <<Head(ms).g0>> \o MarkerTexts(Tail(ms))

\* removing the two-sided markers of t leaves exactly its other markers: the
\* text around a removed marker does not join into a new marker
RemovalJoinsNoMarker(t) ==
  MarkerTexts(Markers(WithoutTwoSided(t))) = MarkerTexts(SelectSeq(Markers(t), NotTwoSided))

\* the decision of a run: exit code, exception and the printed lines that
\* accept or reject
Outcome(code, err, out) ==
  <<code, err, SelectSeq(out, LAMBDA l : l.kind # "Unrecognized marker")>>

OutcomeOf(r) == Outcome(r.exit_code, r.error, r.output)

HasTwoSided(t) == \E i \in DOMAIN Markers(t) : TwoSided(Markers(t)[i])

\* the markers of t the iterator has passed when it stands at position p
Passed(t, p) == SelectSeq(Markers(t), LAMBDA m : m.end <= p)

\* C6 as stated: the decision for a commit message is the decision for the
\* message with its two-sided markers removed.
C6_SameAsWithoutTwoSided ==
  (Ran /\ HasTwoSided(commit_msg)) =>
    OutcomeOf(Decide(build_environment, WithoutTwoSided(commit_msg), default_set))
      = Outcome(exit_code, error, output)

\* C6 amended: every two-sided marker the loop has passed is reported as
\* unrecognized, and the decision for a commit message is the decision for
\* the message with its two-sided markers removed, provided the removal does
\* not join the surrounding text into a new marker.
C6_TwoSidedSkipped ==
  /\ (commit_msg # None /\ error = "none") =>
       SelectSeq(output, LAMBDA l : l.kind = "Unrecognized marker")
         = UnrecognizedLines(Passed(commit_msg, pos))
  /\ (Ran /\ HasTwoSided(commit_msg) /\ RemovalJoinsNoMarker(commit_msg)) =>
       OutcomeOf(Decide(build_environment, WithoutTwoSided(commit_msg), default_set))
         = Outcome(exit_code, error, output)

\* a rejected run whose message has a two-sided marker with a prefix that is
\* a substring of build_environment
C6_Witness ==
  /\ Ran
  /\ exit_code = 1
  /\ error = "none"
  /\ RemovalJoinsNoMarker(commit_msg)
  /\ \E i \in DOMAIN Markers(commit_msg) :
       /\ TwoSided(Markers(commit_msg)[i])
       /\ IsSubstr(Markers(commit_msg)[i].g1, build_environment)
  /\ Len(output) >= 2

\* the permutations of a sequence
Perms(s) ==
  LET n == Len(s)
      bij == { f \in [1..n -> 1..n] : \A a, b \in 1..n : a # b => f[a] # f[b] }
  IN  { [i \in 1..n |-> s[f[i]]] : f \in bij }

\* texts t1 and t2 hold the same markers, in any order
SameMarkers(t1, t2) ==
  MarkerTexts(Markers(t1)) \in Perms(MarkerTexts(Markers(t2)))

\* C10: accepting or not does not depend on order: permuting default_set, or
\* the order of the same markers in the commit message, leaves it unchanged.
C10_OrderIndependent ==
  Ran =>
    /\ \A ds \in Perms(default_set) :
         (Decide(build_environment, commit_msg, ds).exit_code = 0) <=> (exit_code = 0)
    /\ \A h \in Perms(head_msg) :
         SameMarkers(Concat(h), commit_msg) =>
           ((Decide(build_environment, Concat(h), default_set).exit_code = 0)
              <=> (exit_code = 0))

TypeOK ==
  /\ pc \in {"git_log", "markers", "defaults", "reject", "exited"}
  /\ exit_code \in {-1, 0, 1}
  /\ error \in {"none", "CalledProcessError", "TypeError"}
  /\ (pc = "exited") = (exit_code # -1)

====
